---- MODULE Spec2Model ----
(***************************************************************************)
(* A model of the qxl.dialog.MForm mixin (source/class/qxl/dialog/MForm.js) *)
(* and of the two form element classes it registers whose code is at hand  *)
(* (formElement/TextArea.js, formElement/GroupHeader.js).                   *)
(*                                                                         *)
(* One dialog instance is followed.  The class-level (static) state is the *)
(* registry of form element handlers; the instance state is the dialog's   *)
(* members and properties; `heap' holds the toolkit objects the dialog     *)
(* creates (forms, form controllers, models).  `log' is the sequence of    *)
(* observable effects of the most recent operation, `thrown' the error it  *)
(* raised (NoError when it returned normally).                             *)
(***************************************************************************)
EXTENDS Integers, Sequences, FiniteSets, TLC

VARIABLES
  _registeredFormElements,  \* static: fieldType -> handlers
  _internalFormElements,    \* static: the built-in table, or null
  dialog,                   \* the dialog instance: members and properties
  heap,                     \* forms, controllers and models created so far
  call,                     \* the most recent operation and its arguments
  log,                      \* effects of the most recent operation, in order
  thrown,                   \* error raised by the most recent operation
  applied                   \* how the most recent _applyFormData ended

vars == <<_registeredFormElements, _internalFormElements, dialog, heap,
          call, log, thrown, applied>>

(***************************************************************************)
(* Bounds of the model.                                                    *)
(***************************************************************************)
\* forms (and controllers, models) built over one run
MaxForms == 2
\* fields of one formData map
MaxFields == 2
\* proxy calls of one validator waiting for their answer
MaxInFlight == 2

(***************************************************************************)
(* JavaScript values and references.                                       *)
(***************************************************************************)
\* a nullable reference to a map is a set with at most one element
Null == {}
Some(x) == {x}
The(o) == CHOOSE x \in o : TRUE

\* a nullable reference to a toolkit object is its id, 0 for null
NullRef == 0

JsUndefined == [t |-> "undefined", v |-> ""]
JsNull == [t |-> "object", v |-> "null"]
JsNumber(n) == [t |-> "number", v |-> n]
JsString(s) == [t |-> "string", v |-> s]
typeof(x) == x.t

\* an error is the sequence of the parts of its message; none is <<>>
NoError == <<>>
MissingTypeError == <<"Missing type member {String}">>
UnknownTypeError(fieldType) == <<"Field type ", fieldType, " is unknown">>
TypeError == <<"TypeError">>

\* the receivers a function can run with
Dialog == "dialog"          \* the qxl.dialog.Form / FormEmbed instance
ModuleThis == "module"      \* `this' of the module function a class is defined in
Context == "context"        \* the object held by the context property
NoContext == "null"         \* the context property when unset

(***************************************************************************)
(* String.prototype.toLowerCase, on the strings the model uses.            *)
(***************************************************************************)
toLowerCase(s) ==
  CASE s = "TextArea"    -> "textarea"
    [] s = "TEXTAREA"    -> "textarea"
    [] s = "Spinner"     -> "spinner"
    [] s = "GroupHeader" -> "groupheader"
    [] s = "Custom"      -> "custom"
    [] s = "CUSTOM"      -> "custom"
    [] OTHER             -> s

(***************************************************************************)
(* Handler objects.  A handler object is named by the class that provides  *)
(* it; "U1" and "U2" are two handler objects provided by the user.         *)
(***************************************************************************)
BuiltinHandlers == {"TextArea", "GroupHeader", "Spinner"}
UserHandlers == {"U1", "U2"}

\* the members of a handler object
HandlerMembers(h) ==
  CASE h = "TextArea"    -> {"initElement", "addToFormController"}
    [] h = "GroupHeader" -> {"initElement"}
    [] h = "Spinner"     -> {"initElement", "addToFormController"}
    [] h = "U1"          -> {"initElement", "addToFormController", "postProcess"}
    [] h = "U2"          -> {"initElement"}

\* the receiver a member was bound to when the handler object was created
\* (Function.prototype.bind), or Null when it is not bound
BoundThis(h, member) ==
  IF h = "GroupHeader" /\ member = "initElement" THEN Some(ModuleThis) ELSE Null

\* the receiver member `member' of `h' runs with under fn.call(thisArg, ...)
Receiver(h, member, thisArg) ==
  IF BoundThis(h, member) # Null THEN The(BoundThis(h, member)) ELSE thisArg

(***************************************************************************)
(* statics                                                                 *)
(***************************************************************************)
registerWithoutDowncase(fieldType, handlers, registered) ==
  [k \in DOMAIN registered \cup {fieldType} |->
     IF k = fieldType THEN handlers ELSE registered[k]]

registerFormElementHandlers(fieldType, handlers, registered) ==
  LET ft == toLowerCase(fieldType)
  IN  [k \in DOMAIN registered \cup {ft} |->
         IF k = ft THEN handlers ELSE registered[k]]

\* the built-in table, in its order of definition
InternalFormElements ==
  << [fieldType |-> "groupheader", class |-> "GroupHeader"],
     [fieldType |-> "spiinner",    class |-> "Spinner"],
     [fieldType |-> "textarea",    class |-> "TextArea"] >>

TextAreaRegister(registered) ==
  registerFormElementHandlers("textarea", "TextArea", registered)

GroupHeaderRegister(registered) ==
  registerFormElementHandlers("groupheader", "GroupHeader", registered)

SpinnerRegister(registered) ==
  registerFormElementHandlers("spinner", "Spinner", registered)

ClassRegister(class, registered) ==
  CASE class = "TextArea"    -> TextAreaRegister(registered)
    [] class = "GroupHeader" -> GroupHeaderRegister(registered)
    [] class = "Spinner"     -> SpinnerRegister(registered)

(***************************************************************************)
(* The state an operation runs on: the statics, the dialog, the heap, the  *)
(* effects so far and the error raised (once raised, the rest is skipped). *)
(***************************************************************************)
EmptyMap == [k \in {} |-> 0]

Ev(op) == [op |-> op, this |-> "", h |-> "", type |-> "", key |-> "",
           id |-> 0, args |-> <<>>, data |-> Null]

Emit(m, e) == [m EXCEPT !.log = Append(@, e)]
Throw(m, e) == [m EXCEPT !.err = e]

(***************************************************************************)
(* members: _init                                                          *)
(***************************************************************************)
RECURSIVE RegisterInternal(_, _, _)
RegisterInternal(table, i, registered) ==
  IF i > Len(table) THEN registered
  ELSE RegisterInternal(table, i + 1,
         IF table[i].fieldType \in DOMAIN registered
         THEN registered
         ELSE ClassRegister(table[i].class, registered))

_init(m) ==
  LET m1 == [m EXCEPT !.d._formElements = Some(EmptyMap)]
  IN  IF m1.internal # Null
      THEN [m1 EXCEPT !.reg = RegisterInternal(The(m1.internal), 1, m1.reg),
                      !.internal = Null]
      ELSE m1

(***************************************************************************)
(* members: _onFormReady                                                   *)
(***************************************************************************)
\* the converter of the binding: value || false
EnabledConverter(valid) == valid = "true"

_onFormReady(m, form) ==
  [m EXCEPT !.heap.forms[form].bindings = @ + 1,
            !.d.okEnabled = EnabledConverter(m.heap.forms[form].valid)]

(***************************************************************************)
(* members: _applyFormData, its parts in the order of the code             *)
(***************************************************************************)
\* dispose() of a toolkit object: it is marked disposed and lets go of what
\* it held
DisposedController(c) == [c EXCEPT !.disposed = TRUE, !.targets = {}]
DisposedForm(f) == [f EXCEPT !.disposed = TRUE, !.items = <<>>, !.headers = 0]
DisposedModel(o) == [o EXCEPT !.disposed = TRUE, !.props = EmptyMap]

\* lines 425-431: the old controller
DisposeFormController(m) ==
  IF m.d._formController = NullRef THEN m
  ELSE IF m.d.model = NullRef
       THEN m   \* getModel() is null: the TypeError is caught, dispose() is skipped
       ELSE LET c == m.d._formController
            IN  Emit([m EXCEPT !.heap.models[m.d.model].unbound = TRUE,
                               !.heap.controllers[c] = DisposedController(@)],
                     [Ev("disposeController") EXCEPT !.id = c])

\* lines 432-438: the old form
DisposeFormKeepBindings(m) ==
  IF m.d._form = NullRef THEN m
  ELSE Emit([m EXCEPT !.heap.forms[m.d._form] = DisposedForm(@)],
            [Ev("disposeForm") EXCEPT !.id = m.d._form])

DisposeForm(m) ==
  IF m.d._form = NullRef THEN m
  ELSE LET f == m.d._form
       IN  Emit([m EXCEPT !.heap.forms[f] =
                            DisposedForm([@ EXCEPT !.bindings = 0])],
                [Ev("disposeForm") EXCEPT !.id = f])

\* line 439
RemoveNothing(m) == Emit(m, Ev("removeAll"))

RemoveAll(m) == Emit([m EXCEPT !.d.children = <<>>], Ev("removeAll"))

\* lines 447-452
FieldOf(formData, key) ==
  formData[CHOOSE i \in DOMAIN formData : formData[i].key = key]

OwnPropertyNames(formData) == {formData[i].key : i \in DOMAIN formData}

Truthy(x) == x \notin {JsUndefined, JsNull, JsNumber("0"), JsString("")}

modelDataTruthy(formData) ==
  [key \in OwnPropertyNames(formData) |->
     IF Truthy(FieldOf(formData, key).value)
     THEN FieldOf(formData, key).value
     ELSE JsNull]

modelData(formData) ==
  [key \in OwnPropertyNames(formData) |->
     IF FieldOf(formData, key).value # JsUndefined
     THEN FieldOf(formData, key).value
     ELSE JsNull]

\* lines 443-454
ReplaceModel(m, formData) ==
  LET old == m.d.model
      m1 == IF old # NullRef
            THEN Emit([m EXCEPT !.heap.models[old] =
                                  DisposedModel([@ EXCEPT !.unbound = TRUE])],
                      [Ev("disposeModel") EXCEPT !.id = old])
            ELSE m
      id == Len(m1.heap.models) + 1
  IN  Emit([m1 EXCEPT !.heap.models = Append(@, [disposed |-> FALSE,
                                                 unbound |-> FALSE,
                                                 props |-> modelData(formData)]),
                      !.d.model = id],
           [Ev("createModel") EXCEPT !.id = id])

\* line 456
CreateForm(m) ==
  LET id == Len(m.heap.forms) + 1
  IN  Emit([m EXCEPT !.heap.forms = Append(@, [disposed |-> FALSE,
                                               valid |-> "null",
                                               bindings |-> 0,
                                               items |-> <<>>,
                                               headers |-> 0]),
                     !.d._form = id],
           [Ev("createForm") EXCEPT !.id = id])

\* line 463
CreateController(m) ==
  LET id == Len(m.heap.controllers) + 1
  IN  Emit([m EXCEPT !.heap.controllers = Append(@, [disposed |-> FALSE,
                                                     model |-> m.d.model,
                                                     targets |-> {}]),
                     !.d._formController = id],
           [Ev("createController") EXCEPT !.id = id])

\* lines 470-483
CallFormReady(m) ==
  IF m.d.formReadyFunction # "null"
  THEN Emit(m, [Ev("formReadyFunction") EXCEPT !.this = m.d.context,
                                              !.id = m.d._form,
                                              !.args = <<"form", Dialog>>])
  ELSE [m EXCEPT !.d.onceListeners = Append(@, m.d.context)]

(***************************************************************************)
(* The handlers of the registered classes.  Each takes the receiver it     *)
(* runs with; a handler that reads a member of the dialog through another  *)
(* receiver finds it undefined.                                            *)
(***************************************************************************)
NewElement(m, h, key) == [form |-> m.d._form, key |-> key, class |-> h]

\* GroupHeader.js lines 34-42
GroupHeaderInitElement(m, receiver, key) ==
  IF receiver = Dialog
  THEN [m |-> [m EXCEPT !.heap.forms[m.d._form].headers = @ + 1],
        element |-> Some(NewElement(m, "GroupHeader", key))]
  ELSE [m |-> Throw(m, TypeError),   \* this._form is undefined
        element |-> Null]

\* TextArea.js lines 25-32
TextAreaInitElement(m, receiver, key) ==
  [m |-> m, element |-> Some(NewElement(m, "TextArea", key))]

\* TextArea.js lines 34-41
TextAreaAddToFormController(m, receiver, key) ==
  IF receiver = Dialog
  THEN [m EXCEPT !.heap.controllers[m.d._formController].targets = @ \cup {key}]
  ELSE Throw(m, TypeError)           \* this._formController is undefined

\* the Spinner class: an element, bound to the controller like a text area
SpinnerInitElement(m, receiver, key) ==
  [m |-> m, element |-> Some(NewElement(m, "Spinner", key))]

\* user handlers: U1 builds an element, U2 (a header-like type) builds none
UserInitElement(m, h, receiver, key) ==
  [m |-> m,
   element |-> IF h = "U1" THEN Some(NewElement(m, h, key)) ELSE Null]

\* lines 499-501: handlers.initElement.call(this, fieldType, fieldData, key)
CallInitElement(m, h, thisArg, fieldType, key) ==
  LET receiver == Receiver(h, "initElement", thisArg)
      m1 == Emit(m, [Ev("initElement") EXCEPT !.this = receiver, !.h = h,
                                              !.type = fieldType, !.key = key])
  IN  CASE h = "GroupHeader" -> GroupHeaderInitElement(m1, receiver, key)
        [] h = "TextArea"    -> TextAreaInitElement(m1, receiver, key)
        [] h = "Spinner"     -> SpinnerInitElement(m1, receiver, key)
        [] OTHER             -> UserInitElement(m1, h, receiver, key)

\* lines 512-516
CallAddToFormController(m, h, thisArg, fieldType, key) ==
  IF "addToFormController" \notin HandlerMembers(h) THEN m
  ELSE LET receiver == Receiver(h, "addToFormController", thisArg)
           m1 == Emit(m, [Ev("addToFormController") EXCEPT
                            !.this = receiver, !.h = h,
                            !.type = fieldType, !.key = key])
       IN  IF h \in {"TextArea", "Spinner"}
           THEN TextAreaAddToFormController(m1, receiver, key)
           ELSE m1

\* lines 613-617
CallPostProcess(m, h, thisArg, fieldType, key) ==
  IF "postProcess" \notin HandlerMembers(h) THEN m
  ELSE Emit(m, [Ev("postProcess") EXCEPT
                  !.this = Receiver(h, "postProcess", thisArg), !.h = h,
                  !.type = fieldType, !.key = key])

\* lines 656 and 666
AddToForm(m, key, element) ==
  LET old == The(m.d._formElements)
  IN  [m EXCEPT !.heap.forms[m.d._form].items = Append(@, key),
                !.d._formElements =
                   Some([k \in DOMAIN old \cup {key} |->
                           IF k = key THEN element ELSE old[k]])]

\* line 522: fieldData.validation, undefined when the field has none
ValidationOf(fieldData) ==
  IF "validation" \in DOMAIN fieldData THEN fieldData.validation ELSE Null

\* lines 560-566: the names that eval() resolves to a function
ProxyFunctions == {"rpc"}

\* the validators of the items of a form, in the order they were added
ValidatorsOf(m, form) ==
  {v \in DOMAIN m.heap.validators : m.heap.validators[v].form = form}

\* line 572: proxy(method, [value], callback); the call is in flight until
\* the proxy calls the callback back
CallProxy(m, v) ==
  Emit([m EXCEPT !.heap.validators[v].inFlight = @ + 1],
       [Ev("proxy") EXCEPT !.id = v, !.key = m.heap.validators[v].key,
                           !.args = <<m.heap.validators[v].method>>])

\* lines 569-577
validationFuncNoFlag(m, v) ==
  CallProxy([m EXCEPT !.heap.validators[v].__asyncInProgress = TRUE], v)

validationFunc(m, v) ==
  IF ~m.heap.validators[v].__asyncInProgress
  THEN CallProxy([m EXCEPT !.heap.validators[v].__asyncInProgress = TRUE], v)
  ELSE m

\* line 573, validatorObj.setValid(valid, message): the item's validity is
\* set and the validation manager, once every asynchronous validator of the
\* form has answered, sets the form's valid property
setValid(m, v, valid) ==
  LET f == m.heap.validators[v].form
      m1 == Emit([m EXCEPT !.heap.validators[v].valid = valid],
                 [Ev("setValid") EXCEPT !.id = v, !.args = <<valid>>])
      answers == {m1.heap.validators[w].valid : w \in ValidatorsOf(m1, f)}
      formValid == IF answers = {"true"} THEN "true" ELSE "false"
  IN  IF m1.heap.forms[f].disposed \/ "null" \in answers THEN m1
      ELSE LET m2 == [m1 EXCEPT !.heap.forms[f].valid = formValid]
           IN  IF m2.heap.forms[f].bindings > 0
               THEN [m2 EXCEPT !.d.okEnabled = EnabledConverter(formValid)]
               ELSE m2

\* lines 572-575: the callback given to the proxy.  Without invalidMessage
\* the message is this.tr(...), and this is the receiver the proxy calls the
\* callback with: hasTr tells whether that receiver has a tr method.  A
\* listener of the validity may ask for a validation again (revalidate)
\* before the callback returns.
ProxyCallback(m, v, valid, hasTr, revalidate) ==
  LET m0 == [m EXCEPT !.heap.validators[v].inFlight = @ - 1]
  IN  IF m0.heap.validators[v].message = "" /\ ~hasTr
      THEN Throw(m0, TypeError)
      ELSE LET m1 == setValid(m0, v, valid)
               m2 == IF revalidate THEN validationFunc(m1, v) ELSE m1
           IN  [m2 EXCEPT !.heap.validators[v].__asyncInProgress = FALSE]

\* lines 546-580 and 656: the asynchronous validator of a field whose
\* validation names a proxy function and a method, added with the element
AddValidator(m, fieldData) ==
  LET validation == ValidationOf(fieldData)
  IN  IF validation # Null /\ The(validation).proxy \in ProxyFunctions
      THEN [m EXCEPT !.heap.validators =
                        Append(@, [form |-> m.d._form, key |-> fieldData.key,
                                   method |-> The(validation).method,
                                   message |-> The(validation).invalidMessage,
                                   __asyncInProgress |-> FALSE,
                                   inFlight |-> 0,
                                   valid |-> "null"])]
      ELSE m

\* lines 486-667: one iteration of the loop over the fields
ProcessField(m, fieldData) ==
  IF typeof(fieldData.type) # "string" THEN Throw(m, MissingTypeError)
  ELSE LET fieldType == toLowerCase(fieldData.type.v)
       IN  IF fieldType \notin DOMAIN m.reg
           THEN Throw(m, UnknownTypeError(fieldType))
           ELSE LET h == m.reg[fieldType]
                    r == CallInitElement(m, h, Dialog, fieldType, fieldData.key)
                IN  IF r.m.err # NoError \/ r.element = Null THEN r.m
                    ELSE LET m2 == CallAddToFormController(
                                     r.m, h, Dialog, fieldType, fieldData.key)
                             m3 == IF m2.err # NoError THEN m2
                                   ELSE CallPostProcess(
                                          m2, h, Dialog, fieldType, fieldData.key)
                         IN  IF m3.err # NoError THEN m3
                             ELSE AddValidator(
                                    AddToForm(m3, fieldData.key, The(r.element)),
                                    fieldData)

\* lines 485-667
RECURSIVE ProcessFields(_, _, _)
ProcessFields(m, formData, i) ==
  IF i > Len(formData) \/ m.err # NoError THEN m
  ELSE ProcessFields(ProcessField(m, formData[i]), formData, i + 1)

\* lines 673-691
RenderForm(m) ==
  LET kind == IF m.d.setupFormRendererFunction # "null" THEN "custom"
              ELSE "default"
      view == [form |-> m.d._form, kind |-> kind,
               labelColumnWidth |-> IF kind = "default"
                                    THEN m.d.labelColumnWidth ELSE 0,
               labelColumnMaxWidth |-> IF kind = "default"
                                       THEN m.d.labelColumnWidth ELSE 0]
  IN  Emit([m EXCEPT !.d.children = Append(@, view)],
           [Ev("render") EXCEPT !.this = Dialog, !.h = kind, !.id = m.d._form])

\* the validation manager asks every asynchronous validator of the form
RECURSIVE ValidateItems(_, _, _)
ValidateItems(m, form, v) ==
  IF v > Len(m.heap.validators) THEN m
  ELSE ValidateItems(IF m.heap.validators[v].form = form
                     THEN validationFunc(m, v) ELSE m,
                     form, v + 1)

\* line 692: the validation manager computes the form's validity.  Items
\* without a validator are valid (no field applied is required); with
\* asynchronous validators the validity is set when they have answered.
Validate(m) ==
  LET f == m.d._form
      valid == "true"
      m1 == [m EXCEPT !.heap.forms[f].valid = valid]
  IN  IF ValidatorsOf(m, f) # {}
      THEN Emit(ValidateItems(m, f, 1), [Ev("validate") EXCEPT !.id = f])
      ELSE Emit(IF m1.heap.forms[f].bindings > 0
                THEN [m1 EXCEPT !.d.okEnabled = EnabledConverter(valid)]
                ELSE m1,
                [Ev("validate") EXCEPT !.id = f])

\* lines 696-699
CallFinalize(m) ==
  IF m.d.finalizeFunction # "null"
  THEN Emit(m, [Ev("finalizeFunction") EXCEPT !.this = m.d.context,
                                             !.id = m.d._form,
                                             !.args = <<"form", Dialog>>])
  ELSE m

\* lines 418-700; formData is Null or Some(map)
_applyFormData(m, formData) ==
  LET m1 == IF m.d._formElements = Null THEN _init(m) ELSE m
      m2 == RemoveAll(DisposeForm(DisposeFormController(m1)))
  IN  IF formData = Null THEN m2
      ELSE LET fd == The(formData)
               m3 == CreateController(CreateForm(ReplaceModel(m2, fd)))
               m4 == _onFormReady(_onFormReady(m3, m3.d._form), m3.d._form)
               m5 == ProcessFields(CallFormReady(m4), fd, 1)
           IN  IF m5.err # NoError THEN m5
               ELSE CallFinalize(Validate(RenderForm(m5)))

(***************************************************************************)
(* members: _applyLabelColumnWidth (lines 707-718), getForm (343-345)      *)
(***************************************************************************)
_applyLabelColumnWidth(m, width) ==
  IF m.d.setupFormRendererFunction = "null" /\ Len(m.d.children) > 0
  THEN [m EXCEPT !.d.children[1].labelColumnWidth = width,
                 !.d.children[1].labelColumnMaxWidth = width]
  ELSE m

getForm(m) == m.d._form

(***************************************************************************)
(* members: _handleOk (lines 739-749)                                      *)
(***************************************************************************)
\* qx.util.Serializer.toNativeObject: the model's properties as a native map
toNativeObject(m, model) ==
  IF model = NullRef THEN Null ELSE Some(m.heap.models[model].props)

_handleOkNoReset(m) ==
  LET m1 == Emit(Emit(m, Ev("hide")), [Ev("fireEvent") EXCEPT !.type = "ok"])
  IN  IF m1.d.callback # "null"
      THEN Emit(m1, [Ev("callback") EXCEPT
                       !.this = m1.d.context, !.h = m1.d.callback,
                       !.data = toNativeObject(m1, m1.d.model)])
      ELSE m1

_handleOk(m) ==
  LET m1 == Emit(Emit(m, Ev("hide")), [Ev("fireEvent") EXCEPT !.type = "ok"])
      m2 == IF m1.d.callback # "null"
            THEN Emit(m1, [Ev("callback") EXCEPT
                             !.this = m1.d.context, !.h = m1.d.callback,
                             !.data = toNativeObject(m1, m1.d.model)])
            ELSE m1
  IN  Emit([m2 EXCEPT !.d.callback = "null"], Ev("resetCallback"))

(***************************************************************************)
(* The listener added at lines 474-482, and the dispatch of the event      *)
(* "formReadyFunctionChanged" to the listeners added so far.  A listener   *)
(* added with a context runs with that context as its receiver, one added  *)
(* with a null context runs with the dialog.  Each is removed before it    *)
(* runs; an error raised by a listener ends the dispatch.                  *)
(***************************************************************************)
FormReadyListener(m, context) ==
  LET receiver == IF context = NoContext THEN Dialog ELSE context
  IN  IF receiver # Dialog
      THEN Throw(m, TypeError)       \* this.getFormReadyFunction is undefined
      ELSE IF m.d.formReadyFunction # "null"
           THEN Emit(m, [Ev("formReadyFunction") EXCEPT
                            !.this = m.d.context, !.id = m.d._form,
                            !.args = <<"form", Dialog>>])
           ELSE m

RECURSIVE DispatchFormReadyFunctionChanged(_)
DispatchFormReadyFunctionChanged(m) ==
  IF m.d.onceListeners = <<>> \/ m.err # NoError THEN m
  ELSE DispatchFormReadyFunctionChanged(
         FormReadyListener([m EXCEPT !.d.onceListeners = Tail(@)],
                           Head(m.d.onceListeners)))

(***************************************************************************)
(* Inputs                                                                  *)
(***************************************************************************)
\* the keys of a map applied, in their order of insertion
KeyNames == <<"a", "b", "c", "d">>

\* the type and value members of the fields applied
FieldKinds ==
  { [type |-> JsString("TextArea"),    value |-> JsUndefined],
    [type |-> JsString("GroupHeader"), value |-> JsString("x")],
    [type |-> JsString("Custom"),      value |-> JsNumber("0")],
    [type |-> JsString("bogus"),       value |-> JsUndefined],
    [type |-> JsUndefined,             value |-> JsString("x")] }

\* the maps applied: up to MaxFields fields, the i-th under key KeyNames[i]
FormDataOf(fieldKinds) ==
  UNION {{[i \in 1..n |-> [key |-> KeyNames[i], type |-> kinds[i].type,
                            value |-> kinds[i].value]] :
            kinds \in [1..n -> fieldKinds]} :
         n \in 0..MaxFields}

FormDataInputs == FormDataOf(FieldKinds)

\* the maps applied in Spec: fields that are built and fields that are not
LifeFieldKinds ==
  { [type |-> JsString("Custom"),      value |-> JsNumber("0")],
    [type |-> JsString("bogus"),       value |-> JsUndefined] }

LifeFormDataInputs == FormDataOf(LifeFieldKinds)

\* the types the user registers handlers for
UserTypeInputs == {"Custom", "CUSTOM", "Spinner", "TextArea"}

(***************************************************************************)
(* The state machine                                                       *)
(***************************************************************************)
CallOf(name) == [name |-> name, formData |-> Null, type |-> "", handlers |-> ""]

InitialDialog(context) ==
  [constructed |-> FALSE,
   _formElements |-> Null, _form |-> NullRef, _formController |-> NullRef,
   children |-> <<>>,                 \* the children of _formContainer
   okEnabled |-> TRUE,                \* _okButton.enabled
   onceListeners |-> <<>>,            \* listeners of "formReadyFunctionChanged"
   formData |-> Null, model |-> NullRef, labelColumnWidth |-> 100,
   setupFormRendererFunction |-> "null", formReadyFunction |-> "null",
   finalizeFunction |-> "null",
   callback |-> "null", context |-> context]

\* the classes are loaded; nothing is registered, no dialog is constructed
InitLoaded ==
  /\ _registeredFormElements = EmptyMap
  /\ _internalFormElements = Some(InternalFormElements)
  /\ dialog = InitialDialog(NoContext)
  /\ heap = [forms |-> <<>>, controllers |-> <<>>, models |-> <<>>,
           validators |-> <<>>]
  /\ call = CallOf("load")
  /\ log = <<>>
  /\ thrown = NoError
  /\ applied = "none"

Machine ==
  [reg |-> _registeredFormElements, internal |-> _internalFormElements,
   d |-> dialog, heap |-> heap, log |-> <<>>, err |-> NoError]

Commit(m) ==
  /\ _registeredFormElements' = m.reg
  /\ _internalFormElements' = m.internal
  /\ dialog' = m.d
  /\ heap' = m.heap
  /\ log' = m.log
  /\ thrown' = m.err

\* qxl.dialog.MForm.registerFormElementHandlers(fieldType, handlers)
RegisterFormElementHandlers(fieldType, handlers) ==
  /\ _registeredFormElements' =
       registerFormElementHandlers(fieldType, handlers, _registeredFormElements)
  /\ call' = [CallOf("registerFormElementHandlers") EXCEPT
                !.type = fieldType, !.handlers = handlers]
  /\ log' = <<>>
  /\ thrown' = NoError
  /\ UNCHANGED <<_internalFormElements, dialog, heap, applied>>

\* new of the dialog followed: its widget content, then the mixin's constructor
Construct ==
  /\ ~dialog.constructed
  /\ Commit(_init([Machine EXCEPT !.d.constructed = TRUE]))
  /\ call' = CallOf("construct")
  /\ UNCHANGED applied

\* new of another dialog: its _init acts on the statics
ConstructOther ==
  /\ LET m == _init(Machine)
     IN  /\ _registeredFormElements' = m.reg
         /\ _internalFormElements' = m.internal
  /\ call' = CallOf("constructOther")
  /\ log' = <<>>
  /\ thrown' = NoError
  /\ UNCHANGED <<dialog, heap, applied>>

\* setFormData(formData): the property is set and, when the value changed,
\* _applyFormData runs
SetFormData(formData) ==
  /\ dialog.constructed
  /\ formData # Null \/ dialog.formData # Null
  /\ formData # Null => Len(heap.forms) < MaxForms
  /\ LET m == _applyFormData([Machine EXCEPT !.d.formData = formData],
                             formData)
     IN  /\ Commit(m)
         /\ applied' = IF m.err # NoError THEN "threw"
                       ELSE IF formData = Null THEN "null" ELSE "ok"
  /\ call' = [CallOf("setFormData") EXCEPT !.formData = formData]

\* setModel(null)
SetModelNull ==
  /\ dialog.constructed
  /\ dialog.model # NullRef
  /\ dialog' = [dialog EXCEPT !.model = NullRef]
  /\ call' = CallOf("setModel")
  /\ log' = <<>>
  /\ thrown' = NoError
  /\ UNCHANGED <<_registeredFormElements, _internalFormElements, heap,
                 applied>>

\* setFormReadyFunction(f): a change fires "formReadyFunctionChanged"
SetFormReadyFunction(f) ==
  /\ dialog.constructed
  /\ f # dialog.formReadyFunction
  /\ Commit(DispatchFormReadyFunctionChanged(
              [Machine EXCEPT !.d.formReadyFunction = f]))
  /\ call' = CallOf("setFormReadyFunction")
  /\ UNCHANGED applied

\* setCallback(callback)
SetCallback(callback) ==
  /\ dialog.constructed
  /\ callback # dialog.callback
  /\ dialog' = [dialog EXCEPT !.callback = callback]
  /\ call' = CallOf("setCallback")
  /\ log' = <<>>
  /\ thrown' = NoError
  /\ UNCHANGED <<_registeredFormElements, _internalFormElements, heap,
                 applied>>

\* a click on the OK button
HandleOk ==
  /\ dialog.constructed
  /\ Commit(_handleOk(Machine))
  /\ call' = CallOf("_handleOk")
  /\ UNCHANGED applied

\* the validation manager of a form, current or torn down, changes its valid
\* property (a field is edited, an asynchronous validator answers); the
\* bindings added by _onFormReady carry the value to the OK button
ChangeValid(form, valid) ==
  /\ form \in DOMAIN heap.forms
  /\ heap.forms[form].valid # valid
  /\ heap' = [heap EXCEPT !.forms[form].valid = valid]
  /\ dialog' = IF heap.forms[form].bindings > 0
               THEN [dialog EXCEPT !.okEnabled = EnabledConverter(valid)]
               ELSE dialog
  /\ call' = CallOf("changeValid")
  /\ log' = <<>>
  /\ thrown' = NoError
  /\ UNCHANGED <<_registeredFormElements, _internalFormElements,
                 applied>>

\* setFinalizeFunction(f)
SetFinalizeFunction(f) ==
  /\ dialog.constructed
  /\ f # dialog.finalizeFunction
  /\ dialog' = [dialog EXCEPT !.finalizeFunction = f]
  /\ call' = CallOf("setFinalizeFunction")
  /\ log' = <<>>
  /\ thrown' = NoError
  /\ UNCHANGED <<_registeredFormElements, _internalFormElements, heap,
                 applied>>

\* setSetupFormRendererFunction(f)
SetSetupFormRendererFunction(f) ==
  /\ dialog.constructed
  /\ f # dialog.setupFormRendererFunction
  /\ dialog' = [dialog EXCEPT !.setupFormRendererFunction = f]
  /\ call' = CallOf("setSetupFormRendererFunction")
  /\ log' = <<>>
  /\ thrown' = NoError
  /\ UNCHANGED <<_registeredFormElements, _internalFormElements, heap,
                 applied>>

\* setLabelColumnWidth(width): a change runs _applyLabelColumnWidth
SetLabelColumnWidth(width) ==
  /\ dialog.constructed
  /\ width # dialog.labelColumnWidth
  /\ Commit(_applyLabelColumnWidth(
              [Machine EXCEPT !.d.labelColumnWidth = width], width))
  /\ call' = CallOf("setLabelColumnWidth")
  /\ UNCHANGED applied

\* getForm(): the form returned is recorded in the log
GetForm ==
  /\ dialog.constructed
  /\ log' = <<[Ev("getForm") EXCEPT !.id = getForm(Machine)]>>
  /\ call' = CallOf("getForm")
  /\ thrown' = NoError
  /\ UNCHANGED <<_registeredFormElements, _internalFormElements, dialog,
                 heap, applied>>

\* validate() of the current form's validation manager: a field changed, or
\* the application asks for it
ValidateForm ==
  /\ dialog.constructed
  /\ dialog._form # NullRef
  /\ ~heap.forms[dialog._form].disposed
  /\ \A v \in ValidatorsOf(Machine, dialog._form) :
        heap.validators[v].inFlight < MaxInFlight
  /\ Commit(Validate(Machine))
  /\ call' = CallOf("validate")
  /\ UNCHANGED applied

\* the proxy answers a call in flight: it calls the callback with valid
ProxyAnswer(v, valid, hasTr, revalidate) ==
  /\ v \in DOMAIN heap.validators
  /\ heap.validators[v].inFlight > 0
  /\ revalidate => heap.validators[v].inFlight < MaxInFlight
  /\ Commit(ProxyCallback(Machine, v, valid, hasTr, revalidate))
  /\ call' = CallOf("proxyCallback")
  /\ UNCHANGED applied

(***************************************************************************)
(* SpecRegistry: the statics.  Handlers are registered, dialogs are        *)
(* constructed and forms are built, in any order, from the loaded classes. *)
(***************************************************************************)
NextRegistry ==
  \/ \E t \in UserTypeInputs, h \in UserHandlers :
       RegisterFormElementHandlers(t, h)
  \/ Construct
  \/ ConstructOther
  \/ \E fd \in FormDataInputs : SetFormData(Some(fd))

SpecRegistry == InitLoaded /\ [][NextRegistry]_vars

(***************************************************************************)
(* Spec: the life of one dialog.  It starts with the dialog constructed,   *)
(* after the user registered U1 for the type "Custom".                     *)
(***************************************************************************)
ConstructedWith(type, handlers, context) ==
  _init([reg |-> registerFormElementHandlers(type, handlers, EmptyMap),
         internal |-> Some(InternalFormElements),
         d |-> [InitialDialog(context) EXCEPT !.constructed = TRUE],
         heap |-> [forms |-> <<>>, controllers |-> <<>>, models |-> <<>>,
           validators |-> <<>>],
         log |-> <<>>, err |-> NoError])

Init ==
  /\ \E c \in {NoContext, Context} :
       LET m == ConstructedWith("Custom", "U1", c)
       IN  /\ _registeredFormElements = m.reg
           /\ _internalFormElements = m.internal
           /\ dialog = m.d
           /\ heap = m.heap
  /\ call = CallOf("construct")
  /\ log = <<>>
  /\ thrown = NoError
  /\ applied = "none"

Next ==
  \/ \E fd \in LifeFormDataInputs : SetFormData(Some(fd))
  \/ SetFormData(Null)
  \/ SetModelNull
  \/ \E f \in {"null", "f"} : SetFormReadyFunction(f)
  \/ \E cb \in {"null", "cb"} : SetCallback(cb)
  \/ HandleOk
  \/ \E form \in 1..MaxForms, v \in {"true", "false"} :
       ChangeValid(form, v)

Spec == Init /\ [][Next]_vars

(***************************************************************************)
(* SpecRender: the forms of one dialog, their renderer and the functions   *)
(* called around it.  Maps that build and maps that throw are applied.     *)
(***************************************************************************)
RenderFieldKinds ==
  { [type |-> JsString("TextArea"), value |-> JsUndefined],
    [type |-> JsString("Custom"),   value |-> JsNumber("0")],
    [type |-> JsString("bogus"),    value |-> JsUndefined] }

RenderFormDataInputs == FormDataOf(RenderFieldKinds)

LabelColumnWidths == {100, 200}

NextRender ==
  \/ \E fd \in RenderFormDataInputs : SetFormData(Some(fd))
  \/ SetFormData(Null)
  \/ \E f \in {"null", "fin"} : SetFinalizeFunction(f)
  \/ \E f \in {"null", "setup"} : SetSetupFormRendererFunction(f)
  \/ \E w \in LabelColumnWidths : SetLabelColumnWidth(w)
  \/ GetForm

SpecRender == Init /\ [][NextRender]_vars

(***************************************************************************)
(* SpecAsync: fields validated through a proxy.  Forms are built, their    *)
(* validation is requested and the proxy answers, in any order.            *)
(***************************************************************************)
AsyncValidations ==
  { Some([proxy |-> "rpc",  method |-> "check", invalidMessage |-> "bad"]),
    Some([proxy |-> "rpc",  method |-> "check", invalidMessage |-> ""]),
    Some([proxy |-> "nope", method |-> "check", invalidMessage |-> "bad"]) }

AsyncFormDataInputs ==
  UNION {{[i \in 1..n |-> [key |-> KeyNames[i], type |-> JsString("Custom"),
                            value |-> JsNumber("0"),
                            validation |-> validations[i]]] :
            validations \in [1..n -> AsyncValidations]} :
         n \in 0..MaxFields}

NextAsync ==
  \/ \E fd \in AsyncFormDataInputs : SetFormData(Some(fd))
  \/ ValidateForm
  \/ \E v \in 1..(MaxForms * MaxFields), valid \in {"true", "false"},
        hasTr, revalidate \in BOOLEAN :
       ProxyAnswer(v, valid, hasTr, revalidate)

InitAsync == Init /\ dialog.context = NoContext

SpecAsync == InitAsync /\ [][NextAsync]_vars

(***************************************************************************)
(* The claims                                                              *)
(***************************************************************************)
LogOps(ops) == {i \in DOMAIN log : log[i].op \in ops}
HandlerOps == {"initElement", "addToFormController", "postProcess"}
AppliedMap == The(call.formData)
Range(seq) == {seq[i] : i \in DOMAIN seq}
Min(S) == CHOOSE x \in S : \A y \in S : x <= y

\* C1: after a successful application of a non-null formData, _formElements
\* maps exactly the fields of that formData that were built to the elements
\* of the current form; no entry of an earlier application remains.
C1_FormElementsOfCurrentForm ==
  applied = "ok" =>
    LET map == The(dialog._formElements)
    IN  /\ DOMAIN map = Range(heap.forms[dialog._form].items)
        /\ DOMAIN map \subseteq OwnPropertyNames(The(dialog.formData))
        /\ \A k \in DOMAIN map : map[k].form = dialog._form

\* C2: an application disposes the old form and the old controller and
\* empties the container before it creates the new form and controller, so
\* at most one form and at most one controller are not disposed.
C2_OneLiveFormAndController ==
  /\ call.name = "setFormData" =>
       \A i \in LogOps({"disposeController", "disposeForm", "removeAll"}),
          j \in LogOps({"createForm", "createController"}) : i < j
  /\ Cardinality({f \in DOMAIN heap.forms : ~heap.forms[f].disposed}) <= 1
  /\ Cardinality({c \in DOMAIN heap.controllers :
                    ~heap.controllers[c].disposed}) <= 1

\* C3: a successful application of a non-null formData sets a newly created
\* model with one property per own key of formData, holding the field's
\* value member, or null when that is undefined; the model set before has
\* its bindings removed and is disposed.
C3_ModelRebuilt ==
  [][ (call'.name = "setFormData" /\ applied' = "ok") =>
        LET fd == The(call'.formData)
            new == dialog'.model
        IN  /\ new \notin DOMAIN heap.models
            /\ new \in DOMAIN heap'.models
            /\ ~heap'.models[new].disposed
            /\ DOMAIN heap'.models[new].props = {fd[i].key : i \in DOMAIN fd}
            /\ \A i \in DOMAIN fd :
                 heap'.models[new].props[fd[i].key] =
                   IF typeof(fd[i].value) = "undefined" THEN JsNull
                   ELSE fd[i].value
            /\ dialog.model # NullRef =>
                 /\ heap'.models[dialog.model].disposed
                 /\ heap'.models[dialog.model].unbound ]_vars

C3_Witness ==
  /\ call.name = "setFormData"
  /\ applied = "ok"
  /\ Len(heap.models) = 2
  /\ heap.models[1].disposed
  /\ Len(AppliedMap) = 2
  /\ AppliedMap[1].value = JsUndefined
  /\ AppliedMap[2].value = JsNumber("0")
  /\ heap.models[2].props["a"] = JsNull
  /\ heap.models[2].props["b"] = JsNumber("0")

\* the types the built-in classes register
BuiltinFieldTypes == {"groupheader", "spinner", "textarea"}

\* C4: the built-in types are registered once, by the first _init, and a
\* registration made by the user for a built-in type before that, the
\* spinner included, is still the registered one after every _init.
C4_UserRegistrationKept ==
  [][ call'.name \in {"construct", "constructOther"} =>
        /\ \A t \in BuiltinFieldTypes :
             (t \in DOMAIN _registeredFormElements
                /\ _registeredFormElements[t] \in UserHandlers)
             => /\ t \in DOMAIN _registeredFormElements'
                /\ _registeredFormElements'[t] = _registeredFormElements[t]
        /\ _internalFormElements = Null =>
             _registeredFormElements' = _registeredFormElements ]_vars

CaseVariants(a, b) == toLowerCase(a) = toLowerCase(b)

\* C5: field types are case-insensitive: handlers are stored under the
\* lower-cased type, so a later registration replaces an earlier one whose
\* type differs only in case, and a field whose type is any case variant of
\* a registered type is built with the handlers registered for it.
C5_CaseInsensitiveTypes ==
  /\ \A a, b \in DOMAIN _registeredFormElements : CaseVariants(a, b) => a = b
  /\ call.name = "registerFormElementHandlers" =>
       \A t \in DOMAIN _registeredFormElements :
          CaseVariants(t, call.type) => _registeredFormElements[t] = call.handlers
  /\ call.name = "registerFormElementHandlers" =>
       \E t \in DOMAIN _registeredFormElements : CaseVariants(t, call.type)
  /\ call.name = "setFormData" =>
       \A i \in LogOps({"initElement"}) :
          \E t \in DOMAIN _registeredFormElements :
             /\ CaseVariants(t, FieldOf(AppliedMap, log[i].key).type.v)
             /\ log[i].h = _registeredFormElements[t]

C5_Witness ==
  /\ call.name = "setFormData"
  /\ "custom" \in DOMAIN _registeredFormElements
  /\ \E i \in LogOps({"initElement"}) :
       /\ log[i].h = "U2"
       /\ FieldOf(AppliedMap, log[i].key).type.v = "Custom"

\* C6: every handler of every registered type, the built-in groupheader
\* included, runs with the dialog as its receiver and is passed the
\* lower-cased field type; the groupheader's initElement adds its header to
\* the dialog's form.
C6_HandlersRunInDialog ==
  call.name = "setFormData" =>
    \A i \in LogOps(HandlerOps) :
       /\ log[i].this = Dialog
       /\ log[i].type = toLowerCase(FieldOf(AppliedMap, log[i].key).type.v)
       /\ (log[i].op = "initElement" /\ log[i].h = "GroupHeader") =>
            heap.forms[dialog._form].headers > 0

BadType(fieldData) ==
  \/ typeof(fieldData.type) # "string"
  \/ toLowerCase(fieldData.type.v) \notin DOMAIN _registeredFormElements

ErrorOf(fieldData) ==
  IF typeof(fieldData.type) # "string" THEN MissingTypeError
  ELSE UnknownTypeError(toLowerCase(fieldData.type.v))

\* C7: when a field's type is not a string the application throws "Missing
\* type member {String}", and when its lower-cased type is not registered it
\* throws "Field type <type> is unknown" (the first such field decides); no
\* handler is called for that field and no later field is processed.
C7_TypeErrors ==
  (call.name = "setFormData" /\ call.formData # Null) =>
    LET fd == AppliedMap
        bad == {i \in DOMAIN fd : BadType(fd[i])}
    IN  bad # {} =>
          /\ thrown = ErrorOf(fd[Min(bad)])
          /\ \A i \in LogOps(HandlerOps), j \in DOMAIN fd :
               j >= Min(bad) => log[i].key # fd[j].key
          /\ \A j \in DOMAIN fd :
               j >= Min(bad) =>
                 fd[j].key \notin Range(heap.forms[dialog._form].items)

\* C8: handling OK hides the dialog, fires "ok", calls the callback (only
\* when one is set) once, in the configured context, with the native-object
\* serialization of the current model, then resets the callback; a second
\* OK with no callback set anew fires "ok" again and calls nothing.
C8_HandleOkOrder ==
  [][ call'.name = "_handleOk" =>
        LET hide == Ev("hide")
            ok == [Ev("fireEvent") EXCEPT !.type = "ok"]
            callback == [Ev("callback") EXCEPT
                           !.this = dialog.context, !.h = dialog.callback,
                           !.data = IF dialog.model = NullRef THEN Null
                                    ELSE Some(heap.models[dialog.model].props)]
            reset == Ev("resetCallback")
        IN  /\ dialog.callback # "null" => log' = <<hide, ok, callback, reset>>
            /\ dialog.callback = "null" => log' = <<hide, ok, reset>>
            /\ dialog'.callback = "null"
            /\ thrown' = NoError ]_vars

C8_Witness ==
  /\ call.name = "_handleOk"
  /\ dialog.context = Context
  /\ dialog.model # NullRef
  /\ \E i \in LogOps({"callback"}) :
       /\ log[i].this = Context
       /\ log[i].data = Some([a |-> JsNumber("0")])

\* C9: the OK button is enabled exactly when the validation manager of the
\* current form reports valid = true (false and null disable it), and a
\* change of the validity of a torn-down form leaves the button as it is.
C9_OkButtonFollowsCurrentForm ==
  /\ [](\A f \in DOMAIN heap.forms :
          (f = dialog._form /\ ~heap.forms[f].disposed) =>
             dialog.okEnabled = (heap.forms[f].valid = "true"))
  /\ [][ \A f \in DOMAIN heap.forms :
           (heap.forms[f].disposed /\ heap'.forms[f].valid # heap.forms[f].valid)
           => dialog'.okEnabled = dialog.okEnabled ]_vars

C9_Witness ==
  /\ call.name = "changeValid"
  /\ Len(heap.forms) = 2
  /\ heap.forms[1].disposed
  /\ heap.forms[1].valid = "false"
  /\ dialog._form = 2
  /\ ~heap.forms[2].disposed
  /\ heap.forms[2].valid = "true"
  /\ dialog.okEnabled

FormReadyCalls == LogOps({"formReadyFunction"})

\* C10: a formReadyFunction set when formData is applied is called exactly
\* once for that application, with (form, dialog), after the form and the
\* controller exist and before any field is built; one set later is called
\* exactly once, with the current form, however many applications happened
\* while it was unset.  (The second half is stated for a dialog with no
\* context configured, whose listeners run with the dialog as receiver.)
C10_FormReadyCalledOnce ==
  [][ /\ (call'.name = "setFormData" /\ call'.formData # Null
            /\ dialog.formReadyFunction # "null") =>
           /\ Cardinality(FormReadyCalls') = 1
           /\ \A r \in FormReadyCalls' :
                /\ log'[r].id = dialog'._form
                /\ log'[r].args = <<"form", Dialog>>
                /\ \A i \in LogOps({"createForm", "createController"})' : i < r
                /\ \A i \in LogOps(HandlerOps)' : r < i
      /\ (call'.name = "setFormReadyFunction"
            /\ dialog'.formReadyFunction # "null"
            /\ dialog.context = NoContext
            /\ dialog.onceListeners # <<>>) =>
           /\ Cardinality(FormReadyCalls') = 1
           /\ \A r \in FormReadyCalls' : log'[r].id = dialog'._form ]_vars

\* C11: finalizeFunction, when set, is called exactly once per successful
\* application, after every field was added, the renderer was placed in the
\* container and the initial validation ran, with one argument: the dialog.
C11_FinalizeCalledWithDialog ==
  (call.name = "setFormData" /\ applied = "ok"
     /\ dialog.finalizeFunction # "null") =>
    /\ Cardinality(LogOps({"finalizeFunction"})) = 1
    /\ \A r \in LogOps({"finalizeFunction"}) :
         /\ r = Len(log)
         /\ \E i \in LogOps({"render"}), j \in LogOps({"validate"}) :
              i < j /\ j < r
         /\ log[r].args = <<Dialog>>

\* C12: an application renders the form with setupFormRendererFunction,
\* called with the form, when that is set, and otherwise with the default
\* renderer whose label column width and max width are labelColumnWidth;
\* since the last successful application the container holds one child, the
\* renderer of the current form, and since a null application it holds none.
C12_OneRendererInContainer ==
  /\ applied = "ok" =>
       /\ Len(dialog.children) = 1
       /\ dialog.children[1].form = dialog._form
  /\ applied = "null" => dialog.children = <<>>
  /\ (call.name = "setFormData" /\ applied = "ok") =>
       LET view == dialog.children[1]
       IN  /\ Cardinality(LogOps({"render"})) = 1
           /\ \A r \in LogOps({"render"}) :
                log[r].id = dialog._form /\ log[r].h = view.kind
           /\ dialog.setupFormRendererFunction # "null" => view.kind = "custom"
           /\ dialog.setupFormRendererFunction = "null" =>
                /\ view.kind = "default"
                /\ view.labelColumnWidth = dialog.labelColumnWidth
                /\ view.labelColumnMaxWidth = dialog.labelColumnWidth

C12_Witness ==
  /\ call.name = "setFormData"
  /\ applied = "ok"
  /\ dialog._form = 2
  /\ heap.forms[1].disposed
  /\ dialog.labelColumnWidth = 200
  /\ Len(dialog.children) = 1
  /\ dialog.children[1].kind = "default"
  /\ dialog.children[1].labelColumnWidth = 200

\* C13: getForm() returns null or the form built by the most recent
\* application, and never a form that has been disposed.
C13_GetFormNeverDisposed ==
  call.name = "getForm" =>
    \A r \in LogOps({"getForm"}) :
       \/ log[r].id = NullRef
       \/ /\ log[r].id = Len(heap.forms)
          /\ ~heap.forms[log[r].id].disposed

\* a validation of the form validator v belongs to was requested by the step
Requested(v) ==
  /\ call'.name \in {"validate", "setFormData"}
  /\ thrown' = NoError
  /\ heap'.validators[v].form = dialog'._form

\* the step invoked the proxy for validator v
Proxied(v) == \E i \in DOMAIN log' : log'[i].op = "proxy" /\ log'[i].id = v

\* C14: at most one proxy call of a validator is in flight; a request made
\* while the validator is in progress does not invoke the proxy; the
\* in-progress flag is cleared only by the proxy's callback, after it set
\* the validity; a request made when the flag is clear invokes the proxy.
C14_OneProxyCallInFlight ==
  /\ [](\A v \in DOMAIN heap.validators : heap.validators[v].inFlight <= 1)
  /\ [][ \A v \in DOMAIN heap'.validators :
           LET busy == /\ v \in DOMAIN heap.validators
                       /\ heap.validators[v].__asyncInProgress
           IN  /\ busy => ~Proxied(v)
               /\ (busy /\ ~heap'.validators[v].__asyncInProgress) =>
                    /\ call'.name = "proxyCallback"
                    /\ \E i \in DOMAIN log' :
                         /\ log'[i].op = "setValid"
                         /\ log'[i].id = v
                         /\ log'[i].args = <<heap'.validators[v].valid>>
               /\ (Requested(v) /\ ~busy) =>
                    /\ Proxied(v)
                    /\ heap'.validators[v].__asyncInProgress
                    /\ heap'.validators[v].inFlight = 1 ]_vars

C14_Witness ==
  /\ call.name = "validate"
  /\ Len(heap.validators) > 0
  /\ heap.validators[1].form = dialog._form
  /\ heap.validators[1].valid = "false"
  /\ heap.validators[1].__asyncInProgress
  /\ heap.validators[1].inFlight = 1
  /\ \E i \in DOMAIN log : log[i].op = "proxy" /\ log[i].id = 1

====
